---- MODULE Spec2Model ----
(***************************************************************************)
(* Model of domain/environment.py: the grid engine of the herbivore        *)
(* simulation (Environment).  The matrix is modelled exactly as            *)
(* _create_blank_matrix builds it (an outer list of `width` rows, each of  *)
(* `height` cells) and as every accessor reads it (matrix[y][x]).          *)
(***************************************************************************)
EXTENDS Integers, Sequences, FiniteSets, TLC

\* ---------------------------------------------------------------- bounds
MaxWidth == 4
MaxHeight == 4
MaxHerbivores == 1
MaxChildren == 1
MaxFood == 1
MaxHealth == 1
NearSize == 5
MaxNearFood == 3

Widths == 2..MaxWidth
Heights == 2..MaxHeight
Agents == 1..(MaxHerbivores + MaxChildren)
Health == 0..MaxHealth

\* ------------------------------------------------------------ cell values
\* None (the wall marker), the integer 0 (vacant), HerbivoreFood, AliveEntity
None == <<"None", 0>>
Empty == <<"Empty", 0>>
HerbivoreFood(n) == <<"HerbivoreFood", n>>
AliveEntity(id) == <<"AliveEntity", id>>
IsAliveEntity(cell) == cell[1] = "AliveEntity"
\* mutant of IsHerbivoreFood: a truthiness test instead of isinstance
IsHerbivoreFood_truthy(cell) == cell[1] \notin {"Empty", "None"}
IsHerbivoreFood(cell) == cell[1] = "HerbivoreFood"

Coordinates(x, y) == [x |-> x, y |-> y]

Movement ==
  {"STAY", "UP", "DOWN", "LEFT", "RIGHT", "UP_LEFT", "UP_RIGHT", "DOWN_LEFT", "DOWN_RIGHT"}

VARIABLES
  width, height, replenish_food, food_nutrition, herbivore_food_amount, birth_after,
  herbivores,          \* self.herbivores: the registered agents, in order
  matrix,              \* self.matrix[y][x]
  health,              \* entity.health of every agent object
  pc,                  \* "idle" | "setup" | "scan" | "observe" | "move" | "moved" | "raised"
                       \* | "called"
  placed,              \* setup_initial_state: objects placed so far
  pos,                 \* _get_next_state: row-major index of the last visited cell
  entity,              \* _get_next_state: the agent being processed (0 = none)
  movement,            \* _get_next_state: the movement returned by get_move
  moved_entity_cash,   \* _get_next_state: agents already processed this tick
  born,                \* number of offspring objects created so far
  err,                 \* the exception the last call raised, "none" if it returned
  game_over_flag,      \* second component of step_living_regime's result
  tick_start,          \* per agent: "absent" | "dead" | "alive" when the tick began
  get_move_calls,      \* per agent: get_move invocations in the current tick
  give_birth_calls,    \* per agent: give_birth invocations in the current tick
  make_move_calls,     \* per agent: _make_move invocations in the current tick
  eat_calls,           \* per agent: eat invocations in the current tick
  newborn,             \* offspring placed in the current tick
  observation,         \* _get_next_state: the window handed to get_move
  eaten_food           \* the food handed to eat by the last _make_move

config == <<width, height, replenish_food, food_nutrition, herbivore_food_amount, birth_after>>
history == <<tick_start, get_move_calls, give_birth_calls, make_move_calls, eat_calls, newborn>>
io == <<observation, eaten_food>>
vars == <<config, herbivores, matrix, health, pc, placed, pos, entity, movement,
          moved_entity_cash, born, err, game_over_flag, history, io>>

\* ------------------------------------------------------------ grid model
Rows(mat) == DOMAIN mat
Cols(mat, y) == DOMAIN mat[y]
Cells(mat) == {Coordinates(x, y) : x \in 0..(MaxWidth + MaxHeight), y \in Rows(mat)}

InRange(mat, c) == c.y \in Rows(mat) /\ c.x \in Cols(mat, c.y)
AllCells(mat) == {c \in Cells(mat) : InRange(mat, c)}
At(mat, c) == mat[c.y][c.x]
Put(mat, c, v) == [mat EXCEPT ![c.y][c.x] = v]

_create_blank_matrix(w, h) ==
  [i \in 0..(w - 1) |->
     [j \in 0..(h - 1) |->
        IF i \notin {0, w - 1} /\ j \notin {0, h - 1} THEN Empty ELSE None]]

\* mutant of has_space_left: the vacancy check always succeeds
has_space_left_always(mat) == TRUE

has_space_left(mat) == \E c \in AllCells(mat) : At(mat, c) = Empty

\* mutant of game_over: `return True` inside the loops, after the first cell
game_over_early_return(mat) == ~IsAliveEntity(mat[0][0])

game_over(mat) == ~ \E c \in AllCells(mat) : IsAliveEntity(At(mat, c))

\* position of a cell in the row-major scan of enumerate(self.matrix)
ScanIndex(mat, c) == c.y * Cardinality(Cols(mat, c.y)) + c.x

_is_empty_coordinates(mat, c) == At(mat, c) = Empty

\* first cell, in row-major order, that holds obj; <<>> stands for None
_get_object_coordinates(mat, obj) ==
  LET found == {c \in AllCells(mat) : At(mat, c) = obj}
  IN IF found = {} THEN <<>>
     ELSE CHOOSE c \in found : \A d \in found : ScanIndex(mat, c) <= ScanIndex(mat, d)

\* every value random.randint(1, width) - 1, random.randint(1, height) - 1 can take
_get_random_coordinates(w, h) == {Coordinates(x, y) : x \in 0..(w - 1), y \in 0..(h - 1)}

Outcome(mat, e) == [mat |-> mat, err |-> e]

\* _respawn_object: write obj when the cell is vacant, raise otherwise
_respawn_object(mat, c, obj) ==
  IF At(mat, c) = Empty THEN Outcome(Put(mat, c, obj), "none")
  ELSE Outcome(mat, "NotVacantPlaceException")

\* _set_object_randomly: the possible results of the sampling loop.  A sample
\* outside the lists raises IndexError at matrix[y][x]; a sample on a vacant
\* cell ends the loop; any other sample is drawn again.
_set_object_randomly(mat, w, h, obj) ==
  IF ~has_space_left(mat) THEN {Outcome(mat, "SetupEnvironmentError")}
  ELSE {_respawn_object(mat, c, obj) :
          c \in {d \in _get_random_coordinates(w, h) :
                   InRange(mat, d) /\ _is_empty_coordinates(mat, d)}}
       \cup (IF \E d \in _get_random_coordinates(w, h) : ~InRange(mat, d)
             THEN {Outcome(mat, "IndexError")} ELSE {})

\* mutant of coordinates_around: the loops nested the other way, y varying fastest
coordinates_around_y_fastest(near) ==
  [k \in 1..9 |-> Coordinates(near.x + ((k - 1) \div 3) - 1, near.y + ((k - 1) % 3) - 1)]

\* _set_obj_near: the 9 cells around `near`, x varying fastest
coordinates_around(near) ==
  [k \in 1..9 |-> Coordinates(near.x + ((k - 1) % 3) - 1, near.y + ((k - 1) \div 3) - 1)]

_set_obj_near(mat, w, h, near, obj) ==
  LET around == coordinates_around(near)
      vacant == {k \in 1..9 : _is_empty_coordinates(mat, around[k])}
  IN IF vacant # {}
     THEN {_respawn_object(mat, around[CHOOSE k \in vacant : \A l \in vacant : k <= l], obj)}
     ELSE _set_object_randomly(mat, w, h, obj)

\* mutant of _erase_object: the cell is left as it is
_erase_object_noop(mat, c) == mat

_erase_object(mat, c) == Put(mat, c, Empty)

\* ---------------------------------------------------- observation extractor
\* a Python slice bound: negative values count from the end, all are clamped
PyBound(i, n) ==
  IF i < 0 THEN (IF i + n < 0 THEN 0 ELSE i + n) ELSE IF i > n THEN n ELSE i

\* list[a:b] of a list held as a function on 0..n-1; the result is a sequence
PySlice(list, a, b) ==
  LET n == Cardinality(DOMAIN list)
      lo == PyBound(a, n)
      hi == PyBound(b, n)
  IN [i \in 1..(hi - lo) |-> list[lo + i - 1]]

\* mutant of _get_observation: x and y exchanged in the two slices
_get_observation_transposed(mat, p) ==
  LET rows == PySlice(mat, p.x - 1, p.x + 2)
  IN [r \in DOMAIN rows |-> PySlice(rows[r], p.y - 1, p.y + 2)]

_get_observation(mat, p) ==
  LET rows == PySlice(mat, p.y - 1, p.y + 2)
  IN [r \in DOMAIN rows |-> PySlice(rows[r], p.x - 1, p.x + 2)]

\* the cell with row-major index p: Coordinates(x, y) of the enumerate loops
ScanCell(mat, p) == CHOOSE c \in AllCells(mat) : ScanIndex(mat, c) = p

\* ------------------------------------------------------- movement resolver
\* mutant of desired_coordinates: UP and DOWN exchanged
desired_coordinates_flipped(from_, m) ==
  Coordinates(from_.x + (CASE m \in {"RIGHT", "UP_RIGHT", "DOWN_RIGHT"} -> 1
                           [] m \in {"LEFT", "UP_LEFT", "DOWN_LEFT"} -> -1
                           [] OTHER -> 0),
              from_.y + (CASE m \in {"UP", "UP_LEFT", "UP_RIGHT"} -> 1
                           [] m \in {"DOWN", "DOWN_LEFT", "DOWN_RIGHT"} -> -1
                           [] OTHER -> 0))

desired_coordinates(from_, m) ==
  CASE m = "UP" -> Coordinates(from_.x, from_.y - 1)
    [] m = "DOWN" -> Coordinates(from_.x, from_.y + 1)
    [] m = "LEFT" -> Coordinates(from_.x - 1, from_.y)
    [] m = "RIGHT" -> Coordinates(from_.x + 1, from_.y)
    [] m = "UP_LEFT" -> Coordinates(from_.x - 1, from_.y - 1)
    [] m = "UP_RIGHT" -> Coordinates(from_.x + 1, from_.y - 1)
    [] m = "DOWN_LEFT" -> Coordinates(from_.x - 1, from_.y + 1)
    [] m = "DOWN_RIGHT" -> Coordinates(from_.x + 1, from_.y + 1)

MoveOutcome(mat, e, eaten) == [mat |-> mat, err |-> e, eaten |-> eaten]

\* mutant of _make_move_to: the vacancy test accepts every cell that is not a
\* wall, so the mover overwrites whatever the target holds
_make_move_to_overwriting(mat, w, h, replenish, nutrition, from_, to, obj) ==
  IF At(mat, to) # None
  THEN {MoveOutcome(Put(Put(mat, to, obj), from_, Empty), "none", <<>>)}
  ELSE {MoveOutcome(mat, "none", <<>>)}

\* mutant of _make_move_to: eat is called after the mover has been written
\* into the target, so it is handed the cell's new content
_make_move_to_eats_late(mat, w, h, replenish, nutrition, from_, to, obj) ==
  IF At(mat, to) = Empty
  THEN {MoveOutcome(Put(Put(mat, to, obj), from_, Empty), "none", <<>>)}
  ELSE IF IsHerbivoreFood(At(mat, to))
  THEN LET moved == Put(Put(mat, to, obj), from_, Empty)
       IN IF replenish
          THEN {MoveOutcome(o.mat, o.err, <<At(moved, to)>>) :
                  o \in _set_object_randomly(moved, w, h, HerbivoreFood(nutrition))}
          ELSE {MoveOutcome(moved, "none", <<At(moved, to)>>)}
  ELSE {MoveOutcome(mat, "none", <<>>)}

\* mutant of _make_move_to: the origin cell is not cleared after the mover
\* was written into the target
_make_move_to_leaves_origin(mat, w, h, replenish, nutrition, from_, to, obj) ==
  IF At(mat, to) = Empty
  THEN {MoveOutcome(Put(mat, to, obj), "none", <<>>)}
  ELSE IF IsHerbivoreFood(At(mat, to))
  THEN LET moved == Put(mat, to, obj)
       IN IF replenish
          THEN {MoveOutcome(o.mat, o.err, <<At(mat, to)>>) :
                  o \in _set_object_randomly(moved, w, h, HerbivoreFood(nutrition))}
          ELSE {MoveOutcome(moved, "none", <<At(mat, to)>>)}
  ELSE {MoveOutcome(mat, "none", <<>>)}

\* mutant of _make_move_to: the replenishing Food is placed before the mover
\* leaves its origin
_make_move_to_replenish_first(mat, w, h, replenish, nutrition, from_, to, obj) ==
  IF At(mat, to) = Empty
  THEN {MoveOutcome(Put(Put(mat, to, obj), from_, Empty), "none", <<>>)}
  ELSE IF IsHerbivoreFood(At(mat, to))
  THEN LET entered == Put(mat, to, obj)
       IN IF replenish
          THEN {MoveOutcome(IF o.err = "none" THEN Put(o.mat, from_, Empty) ELSE o.mat,
                            o.err, <<At(mat, to)>>) :
                  o \in _set_object_randomly(entered, w, h, HerbivoreFood(nutrition))}
          ELSE {MoveOutcome(Put(entered, from_, Empty), "none", <<At(mat, to)>>)}
  ELSE {MoveOutcome(mat, "none", <<>>)}

\* the two branches of _make_move that write the grid; `eaten` lists the food
\* units handed to obj.eat
_make_move_to(mat, w, h, replenish, nutrition, from_, to, obj) ==
  IF At(mat, to) = Empty
  THEN {MoveOutcome(Put(Put(mat, to, obj), from_, Empty), "none", <<>>)}
  ELSE IF IsHerbivoreFood(At(mat, to))
  THEN LET moved == Put(Put(mat, to, obj), from_, Empty)
       IN IF replenish
          THEN {MoveOutcome(o.mat, o.err, <<At(mat, to)>>) :
                  o \in _set_object_randomly(moved, w, h, HerbivoreFood(nutrition))}
          ELSE {MoveOutcome(moved, "none", <<At(mat, to)>>)}
  ELSE {MoveOutcome(mat, "none", <<>>)}

\* mutant of _make_move: STAY returns before the mover is looked up
_make_move_stay_first(mat, w, h, replenish, nutrition, m, obj) ==
  LET from_ == _get_object_coordinates(mat, obj)
  IN IF m = "STAY" THEN {MoveOutcome(mat, "none", <<>>)}
     ELSE IF from_ = <<>> THEN {MoveOutcome(mat, "ObjectNotExistsInEnvironment", <<>>)}
     ELSE _make_move_to(mat, w, h, replenish, nutrition, from_, desired_coordinates(from_, m), obj)

_make_move(mat, w, h, replenish, nutrition, m, obj) ==
  LET from_ == _get_object_coordinates(mat, obj)
  IN IF from_ = <<>> THEN {MoveOutcome(mat, "ObjectNotExistsInEnvironment", <<>>)}
     ELSE IF m = "STAY" THEN {MoveOutcome(mat, "none", <<>>)}
     ELSE _make_move_to(mat, w, h, replenish, nutrition, from_, desired_coordinates(from_, m), obj)

\* ---------------------------------------------------------- agent contract
\* AliveEntity.eat: the nutrition of the food is added to the health
eat(h, food) ==
  IF h + food[2] > MaxHealth THEN MaxHealth ELSE h + food[2]

\* AliveEntity.get_move: any movement, and any health afterwards
get_move == Movement \X Health

\* AliveEntity.give_birth: no child (0) or a new agent object, any health afterwards
give_birth(b) ==
  {0} \cup (IF b < MaxChildren THEN {MaxHerbivores + b + 1} ELSE {})

\* -------------------------------------------------------------- lifecycle
\* `if entity.health == 0`
is_dead(h) == h = 0

\* mutant of already_moved: the cache is never consulted
already_moved_never(e, cash) == FALSE

\* `if entity in moved_entity_cash`
already_moved(e, cash) == e \in cash

\* the next cell after index p, in row-major order, that holds an AliveEntity
NextAlive(mat, p) ==
  LET ahead == {c \in AllCells(mat) : ScanIndex(mat, c) > p /\ IsAliveEntity(At(mat, c))}
  IN IF ahead = {} THEN <<>>
     ELSE CHOOSE c \in ahead : \A d \in ahead : ScanIndex(mat, c) <= ScanIndex(mat, d)

Zero == [a \in Agents |-> 0]

StatusOf(mat, hl, a) ==
  IF _get_object_coordinates(mat, AliveEntity(a)) = <<>> THEN "absent"
  ELSE IF hl[a] = 0 THEN "dead" ELSE "alive"

\* the locals of _get_next_state and the per-tick records, outside a tick
NoTick ==
  /\ pos' = -1
  /\ entity' = 0
  /\ movement' = "STAY"
  /\ moved_entity_cash' = {}
  /\ tick_start' = [a \in Agents |-> "absent"]
  /\ get_move_calls' = Zero
  /\ give_birth_calls' = Zero
  /\ make_move_calls' = Zero
  /\ eat_calls' = Zero
  /\ newborn' = {}
  /\ observation' = <<>>
  /\ eaten_food' = <<>>

tick_locals == <<pos, entity, movement, moved_entity_cash, history, io>>

Init ==
  /\ width \in Widths
  /\ height \in Heights
  /\ replenish_food \in BOOLEAN
  /\ food_nutrition = 1
  /\ herbivore_food_amount \in 0..MaxFood
  /\ birth_after \in BOOLEAN
  /\ herbivores = <<>>
  /\ matrix = _create_blank_matrix(width, height)
  /\ health = [a \in Agents |-> MaxHealth]
  /\ pc = "idle"
  /\ placed = 0
  /\ pos = -1
  /\ entity = 0
  /\ movement = "STAY"
  /\ moved_entity_cash = {}
  /\ born = 0
  /\ err = "none"
  /\ game_over_flag = TRUE
  /\ tick_start = [a \in Agents |-> "absent"]
  /\ get_move_calls = Zero
  /\ give_birth_calls = Zero
  /\ make_move_calls = Zero
  /\ eat_calls = Zero
  /\ newborn = {}
  /\ observation = <<>>
  /\ eaten_food = <<>>

\* setup_herbivores
setup_herbivores ==
  /\ pc = "idle"
  /\ herbivores = <<>>
  /\ \E n \in 0..MaxHerbivores : herbivores' = [i \in 1..n |-> i]
  /\ UNCHANGED <<config, matrix, health, pc, placed, born, err, game_over_flag, tick_locals>>

\* setup_initial_state, up to the first placement
setup_initial_state ==
  /\ pc = "idle"
  /\ matrix' = _create_blank_matrix(width, height)
  /\ placed' = 0
  /\ IF Len(herbivores) < 1
     THEN pc' = "idle" /\ err' = "SetupEnvironmentError"
     ELSE pc' = "setup" /\ err' = "none"
  /\ UNCHANGED <<config, herbivores, health, born, game_over_flag, tick_locals>>

\* setup_initial_state: one _set_object_randomly of its two loops
setup_place ==
  /\ pc = "setup"
  /\ LET obj == IF placed < Len(herbivores) THEN AliveEntity(herbivores[placed + 1])
                ELSE HerbivoreFood(food_nutrition)
     IN \E o \in _set_object_randomly(matrix, width, height, obj) :
          /\ matrix' = o.mat
          /\ err' = o.err
          /\ IF o.err # "none" THEN pc' = "idle" /\ placed' = 0
             ELSE IF placed + 1 = Len(herbivores) + herbivore_food_amount
             THEN pc' = "idle" /\ placed' = 0
             ELSE pc' = "setup" /\ placed' = placed + 1
  /\ UNCHANGED <<config, herbivores, health, born, game_over_flag, tick_locals>>

\* step_living_regime: entry into _get_next_state
step_living_regime ==
  /\ pc = "idle"
  /\ pc' = "scan"
  /\ err' = "none"
  /\ tick_start' = [a \in Agents |-> StatusOf(matrix, health, a)]
  /\ UNCHANGED <<config, herbivores, matrix, health, placed, born, game_over_flag,
                 pos, entity, movement, moved_entity_cash,
                 get_move_calls, give_birth_calls, make_move_calls, eat_calls, newborn, io>>

\* _get_next_state: the scan reaches a dead agent and erases it
visit_dead ==
  /\ pc = "scan"
  /\ NextAlive(matrix, pos) # <<>>
  /\ LET c == NextAlive(matrix, pos)
         e == At(matrix, c)[2]
     IN /\ is_dead(health[e])
        /\ matrix' = _erase_object(matrix, c)
        /\ pos' = ScanIndex(matrix, c)
  /\ UNCHANGED <<config, herbivores, health, pc, placed, born, err, game_over_flag,
                 entity, movement, moved_entity_cash, history, io>>

\* _get_next_state: the scan reaches an agent already in moved_entity_cash
visit_moved ==
  /\ pc = "scan"
  /\ NextAlive(matrix, pos) # <<>>
  /\ LET c == NextAlive(matrix, pos)
         e == At(matrix, c)[2]
     IN /\ ~is_dead(health[e])
        /\ already_moved(e, moved_entity_cash)
        /\ pos' = ScanIndex(matrix, c)
  /\ UNCHANGED <<config, herbivores, matrix, health, pc, placed, born, err,
                 game_over_flag, entity, movement, moved_entity_cash, history, io>>

\* _get_next_state: the scan reaches an agent to process; birth is disabled
\* or give_birth returns no child
visit_no_child ==
  /\ pc = "scan"
  /\ NextAlive(matrix, pos) # <<>>
  /\ LET c == NextAlive(matrix, pos)
         e == At(matrix, c)[2]
     IN /\ ~is_dead(health[e])
        /\ ~already_moved(e, moved_entity_cash)
        /\ pos' = ScanIndex(matrix, c)
        /\ entity' = e
        /\ pc' = "observe"
        /\ IF ~birth_after
           THEN UNCHANGED <<health, give_birth_calls>>
           ELSE /\ 0 \in give_birth(born)
                /\ \E h \in Health : health' = [health EXCEPT ![e] = h]
                /\ give_birth_calls' = [give_birth_calls EXCEPT ![e] = @ + 1]
  /\ UNCHANGED <<config, herbivores, matrix, placed, born, err, game_over_flag,
                 movement, moved_entity_cash, tick_start, get_move_calls,
                 make_move_calls, eat_calls, newborn, io>>

\* _get_next_state: the scan reaches an agent to process; give_birth returns a
\* child, which _set_obj_near places
visit_birth ==
  /\ pc = "scan"
  /\ birth_after
  /\ NextAlive(matrix, pos) # <<>>
  /\ LET c == NextAlive(matrix, pos)
         e == At(matrix, c)[2]
     IN /\ ~is_dead(health[e])
        /\ ~already_moved(e, moved_entity_cash)
        /\ \E child \in give_birth(born) \ {0}, h \in Health, hc \in Health :
           \E o \in _set_obj_near(matrix, width, height, c, AliveEntity(child)) :
             /\ health' = [health EXCEPT ![e] = h, ![child] = hc]
             /\ born' = born + 1
             /\ matrix' = o.mat
             /\ err' = o.err
             /\ IF o.err # "none"
                THEN pc' = "raised" /\ UNCHANGED <<moved_entity_cash, newborn>>
                ELSE /\ pc' = "observe"
                     /\ moved_entity_cash' = moved_entity_cash \cup {child}
                     /\ newborn' = newborn \cup {child}
        /\ pos' = ScanIndex(matrix, c)
        /\ entity' = e
        /\ give_birth_calls' = [give_birth_calls EXCEPT ![e] = @ + 1]
        /\ UNCHANGED <<movement, tick_start, get_move_calls, make_move_calls, eat_calls, io>>
  /\ UNCHANGED <<config, herbivores, placed, game_over_flag>>

\* _get_next_state: observation and entity.get_move
decide ==
  /\ pc = "observe"
  /\ \E d \in get_move :
       /\ movement' = d[1]
       /\ health' = [health EXCEPT ![entity] = d[2]]
  /\ observation' = _get_observation(matrix, ScanCell(matrix, pos))
  /\ get_move_calls' = [get_move_calls EXCEPT ![entity] = @ + 1]
  /\ pc' = "move"
  /\ UNCHANGED <<config, herbivores, matrix, placed, born, err, game_over_flag,
                 pos, entity, moved_entity_cash, tick_start, give_birth_calls,
                 make_move_calls, eat_calls, newborn, eaten_food>>

\* _get_next_state: self._make_move(movement, entity)
make_move ==
  /\ pc = "move"
  /\ \E o \in _make_move(matrix, width, height, replenish_food, food_nutrition,
                         movement, AliveEntity(entity)) :
       /\ matrix' = o.mat
       /\ err' = o.err
       /\ health' = IF o.eaten = <<>> THEN health
                    ELSE [health EXCEPT ![entity] = eat(@, o.eaten[1])]
       /\ eat_calls' = [eat_calls EXCEPT ![entity] = @ + Len(o.eaten)]
       /\ eaten_food' = o.eaten
       /\ pc' = IF o.err # "none" THEN "raised" ELSE "moved"
  /\ make_move_calls' = [make_move_calls EXCEPT ![entity] = @ + 1]
  /\ observation' = <<>>
  /\ UNCHANGED <<config, herbivores, placed, born, game_over_flag, pos, entity,
                 movement, moved_entity_cash, tick_start, get_move_calls,
                 give_birth_calls, newborn>>

\* mutant of cash_append: the append of line 108 is missing
cash_append_forgets ==
  /\ pc = "moved"
  /\ pc' = "scan"
  /\ entity' = 0
  /\ movement' = "STAY"
  /\ eaten_food' = <<>>
  /\ UNCHANGED <<config, herbivores, matrix, health, placed, born, err, game_over_flag,
                 pos, moved_entity_cash, history, observation>>

\* _get_next_state: moved_entity_cash.append(entity), on to the next cell
cash_append ==
  /\ pc = "moved"
  /\ pc' = "scan"
  /\ moved_entity_cash' = moved_entity_cash \cup {entity}
  /\ entity' = 0
  /\ movement' = "STAY"
  /\ eaten_food' = <<>>
  /\ UNCHANGED <<config, herbivores, matrix, health, placed, born, err, game_over_flag,
                 pos, history, observation>>

\* an exception raised inside _get_next_state leaves step_living_regime
unwind ==
  /\ pc = "raised"
  /\ pc' = "idle"
  /\ NoTick
  /\ UNCHANGED <<config, herbivores, matrix, health, placed, born, err, game_over_flag>>

\* step_living_regime: the scan is exhausted; return (matrix, game_over)
tick_return ==
  /\ pc = "scan"
  /\ NextAlive(matrix, pos) = <<>>
  /\ pc' = "idle"
  /\ game_over_flag' = game_over(matrix)
  /\ NoTick
  /\ UNCHANGED <<config, herbivores, matrix, health, placed, born, err>>

Next ==
  \/ setup_herbivores
  \/ setup_initial_state
  \/ setup_place
  \/ step_living_regime
  \/ visit_dead
  \/ visit_moved
  \/ visit_no_child
  \/ visit_birth
  \/ decide
  \/ make_move
  \/ cash_append
  \/ unwind
  \/ tick_return

Spec == Init /\ [][Next]_vars

\* ------------------------------------------- _make_move called on its own
\* _make_move(movement, obj) outside a tick, for any agent object and movement
call_make_move ==
  /\ pc = "idle"
  /\ \E a \in Agents, m \in Movement :
       \E o \in _make_move(matrix, width, height, replenish_food, food_nutrition,
                           m, AliveEntity(a)) :
         /\ entity' = a
         /\ movement' = m
         /\ matrix' = o.mat
         /\ err' = o.err
         /\ health' = IF o.eaten = <<>> THEN health
                      ELSE [health EXCEPT ![a] = eat(@, o.eaten[1])]
         /\ eaten_food' = o.eaten
  /\ pc' = "called"
  /\ UNCHANGED <<config, herbivores, placed, born, game_over_flag, pos,
                 moved_entity_cash, history, observation>>

\* the direct call is over, by return or by exception
call_return ==
  /\ pc = "called"
  /\ pc' = "idle"
  /\ entity' = 0
  /\ movement' = "STAY"
  /\ eaten_food' = <<>>
  /\ UNCHANGED <<config, herbivores, matrix, health, placed, born, err, game_over_flag,
                 pos, moved_entity_cash, history, observation>>

DirectNext ==
  \/ Next
  \/ call_make_move
  \/ call_return

DirectSpec == Init /\ [][DirectNext]_vars

\* ------------------------------------------- placement near a parent
\* The state at the start of a tick on a NearSize x NearSize grid after
\* setup_initial_state has placed one herbivore and up to MaxNearFood Food
\* units: every layout the random placement can produce.
NearInterior == {Coordinates(x, y) : x \in 1..(NearSize - 2), y \in 1..(NearSize - 2)}
NearLayouts ==
  {l \in [at : NearInterior, food : SUBSET NearInterior] :
     l.at \notin l.food /\ Cardinality(l.food) <= MaxNearFood}
NearMatrix(l) ==
  [y \in 0..(NearSize - 1) |->
     [x \in 0..(NearSize - 1) |->
        IF Coordinates(x, y) = l.at THEN AliveEntity(1)
        ELSE IF Coordinates(x, y) \in l.food THEN HerbivoreFood(1)
        ELSE _create_blank_matrix(NearSize, NearSize)[y][x]]]

NearInit ==
  /\ width = NearSize
  /\ height = NearSize
  /\ replenish_food \in BOOLEAN
  /\ food_nutrition = 1
  /\ birth_after = TRUE
  /\ herbivores = <<1>>
  /\ \E l \in NearLayouts :
       /\ matrix = NearMatrix(l)
       /\ herbivore_food_amount = Cardinality(l.food)
  /\ health = [a \in Agents |-> MaxHealth]
  /\ pc = "scan"
  /\ placed = 0
  /\ pos = -1
  /\ entity = 0
  /\ movement = "STAY"
  /\ moved_entity_cash = {}
  /\ born = 0
  /\ err = "none"
  /\ game_over_flag = TRUE
  /\ tick_start = [a \in Agents |-> IF a = 1 THEN "alive" ELSE "absent"]
  /\ get_move_calls = Zero
  /\ give_birth_calls = Zero
  /\ make_move_calls = Zero
  /\ eat_calls = Zero
  /\ newborn = {}
  /\ observation = <<>>
  /\ eaten_food = <<>>

PlacementSpec == NearInit /\ [][visit_birth]_vars

TypeOK ==
  /\ pc \in {"idle", "setup", "scan", "observe", "move", "moved", "raised", "called"}
  /\ err \in {"none", "SetupEnvironmentError", "IndexError", "ObjectNotExistsInEnvironment",
              "NotVacantPlaceException"}

\* ================================================================ claims
\* helpers of the formulas: the grid as the specification describes it,
\* `height` rows of `width` columns, addressed by (x, y)
SpecCells == {Coordinates(x, y) : x \in 0..(width - 1), y \in 0..(height - 1)}
OnRing(c) == c.x \in {0, width - 1} \/ c.y \in {0, height - 1}
Interior == {c \in SpecCells : ~OnRing(c)}
ValidConfiguration == width >= 3 /\ height >= 3
Kind(mat, c) == mat[c.y][c.x][1]
OnGrid(mat, a) == \E c \in AllCells(mat) : mat[c.y][c.x] = <<"AliveEntity", a>>
CellOf(mat, a) == CHOOSE c \in AllCells(mat) : mat[c.y][c.x] = <<"AliveEntity", a>>
FoodCount(mat) == Cardinality({c \in AllCells(mat) : Kind(mat, c) = "HerbivoreFood"})
ScanDone == pc = "scan" /\ NextAlive(matrix, pos) = <<>>

\* C1: in every valid configuration (width >= 3, height >= 3, square or not)
\* the cells of row 0, row height-1, column 0 and column width-1 are exactly
\* the Boundary (None) cells of the grid, at creation and ever after.
C1_BoundaryRing ==
  ValidConfiguration =>
    /\ \A c \in SpecCells : InRange(matrix, c) /\ (OnRing(c) <=> At(matrix, c) = None)
    /\ \A c \in AllCells(matrix) : At(matrix, c) = None => (c \in SpecCells /\ OnRing(c))

\* C2: a placement writes only into a cell that is Empty; a move writes the
\* mover only into a cell that is Empty or holds the Food it has just eaten
\* (its vacated origin may receive the replenished Food); no agent and no
\* uneaten Food is overwritten.
C2_WritesOnlyIntoVacant ==
  [][\A c \in AllCells(matrix) :
       (pc # "idle" /\ matrix'[c.y][c.x] # matrix[c.y][c.x] /\ Kind(matrix', c) # "Empty")
       => \/ Kind(matrix, c) = "Empty"
          \/ /\ pc = "move"
             /\ Kind(matrix, c) = "HerbivoreFood"
             /\ matrix'[c.y][c.x] = <<"AliveEntity", entity>>
             /\ eat_calls'[entity] = eat_calls[entity] + 1
          \/ /\ pc = "move"
             /\ matrix[c.y][c.x] = <<"AliveEntity", entity>>
             /\ Kind(matrix', c) = "HerbivoreFood"
             /\ OnGrid(matrix', entity)
             /\ eat_calls'[entity] = eat_calls[entity] + 1]_vars

\* C2 witness: in one tick an offspring has been placed and its parent has
\* moved into a Food cell
C2_Witness ==
  /\ pc = "moved"
  /\ newborn # {}
  /\ eat_calls[entity] = 1
  /\ FoodCount(matrix) >= 1

\* the unit offsets of the directional movements, as the specification lists them
DX(m) ==
  CASE m \in {"RIGHT", "UP_RIGHT", "DOWN_RIGHT"} -> 1
    [] m \in {"LEFT", "UP_LEFT", "DOWN_LEFT"} -> -1
    [] OTHER -> 0
DY(m) ==
  CASE m \in {"DOWN", "DOWN_LEFT", "DOWN_RIGHT"} -> 1
    [] m \in {"UP", "UP_LEFT", "UP_RIGHT"} -> -1
    [] OTHER -> 0
Origin == CellOf(matrix, entity)
Target == Coordinates(Origin.x + DX(movement), Origin.y + DY(movement))
Registered == {herbivores[i] : i \in 1..Len(herbivores)}
EnoughSpace == Len(herbivores) + herbivore_food_amount <= Cardinality(Interior)
\* the cell the scan visited last
Visited == CHOOSE c \in AllCells(matrix) : ScanIndex(matrix, c) = pos

\* the grid holds exactly the registered agents and herbivore_food_amount Food
\* units, all in interior cells, every other interior cell Empty
ExactlyPlaced(mat) ==
  /\ \A c \in Interior : InRange(mat, c)
  /\ \A a \in Registered :
       Cardinality({c \in Interior : mat[c.y][c.x] = <<"AliveEntity", a>>}) = 1
  /\ Cardinality({c \in Interior : Kind(mat, c) = "HerbivoreFood"}) = herbivore_food_amount
  /\ \A c \in Interior :
       \/ Kind(mat, c) \in {"Empty", "HerbivoreFood"}
       \/ Kind(mat, c) = "AliveEntity" /\ mat[c.y][c.x][2] \in Registered
  /\ \A c \in AllCells(mat) : c \notin Interior => Kind(mat, c) = "None"

\* C3: with N >= 1 registered agents and N + M <= the number of interior
\* cells, setup_initial_state ends with exactly the N agents and M Food units
\* in distinct interior cells and every other interior cell Empty.
C3_SetupPlacesAll ==
  [][(pc = "setup" /\ pc' = "idle" /\ Len(herbivores) >= 1 /\ EnoughSpace)
       => (err' = "none" /\ ExactlyPlaced(matrix'))]_vars

\* C4: setup_initial_state raises SetupEnvironmentError when no agent is
\* registered and when the interior cannot hold all N agents and M Food units,
\* and completes without error in every other case.
C4_SetupErrors ==
  [][((setup_initial_state \/ setup_place) /\ pc' = "idle")
       => err' = (IF Len(herbivores) = 0 \/ ~EnoughSpace
                  THEN "SetupEnvironmentError" ELSE "none")]_vars

\* C5: a move into a Food cell leaves the number of Food cells unchanged when
\* replenishment is enabled and lowers it by exactly one when it is disabled.
C5_FoodCountAfterEating ==
  [][(pc = "move" /\ movement # "STAY" /\ Kind(matrix, Target) = "HerbivoreFood")
       => FoodCount(matrix') =
            FoodCount(matrix) - (IF replenish_food THEN 0 ELSE 1)]_vars

\* C6: an agent on the grid with health 0 when a tick begins has neither
\* give_birth nor get_move invoked and is never passed to _make_move during
\* the tick, and is absent from the grid when the scan of the tick is over.
C6_DeadAgentRemoved ==
  \A a \in Agents :
    tick_start[a] = "dead" =>
      /\ get_move_calls[a] = 0
      /\ give_birth_calls[a] = 0
      /\ make_move_calls[a] = 0
      /\ ScanDone => ~OnGrid(matrix, a)

\* C6 witness: the scan is over in a tick that began with a dead agent on
\* the grid next to a live one
C6_Witness ==
  /\ ScanDone
  /\ \E a \in Agents : tick_start[a] = "dead"
  /\ \E b \in Agents : tick_start[b] = "alive" /\ get_move_calls[b] = 1

\* C7: the flag step_living_regime returns is true exactly when no agent is
\* on the grid it returns, after the whole sweep.
C7_GameOverIffNoAgents ==
  [][(pc = "scan" /\ pc' = "idle")
       => (game_over_flag' <=> \A a \in Agents : ~OnGrid(matrix', a))]_vars

\* C7 witness: the sweep of a tick that began with agents on the grid is
\* over and has removed the last of them
C7_Witness ==
  /\ ScanDone
  /\ \E a \in Agents : tick_start[a] # "absent"
  /\ \A a \in Agents : ~OnGrid(matrix, a)

\* the cells other than origin and target that a step changes
OtherChanges(from_, to) ==
  {c \in AllCells(matrix) : c # from_ /\ c # to /\ matrix'[c.y][c.x] # matrix[c.y][c.x]}
ReplenishApplies == replenish_food /\ Kind(matrix, Target) = "HerbivoreFood"
MoveAllowed ==
  pc = "move" /\ movement # "STAY" /\ Kind(matrix, Target) \in {"Empty", "HerbivoreFood"}

C9_BlockedMoveIsNoOp ==
  [][(pc = "move" /\ movement # "STAY" /\ Kind(matrix, Target) \in {"None", "AliveEntity"})
       => /\ matrix' = matrix
          /\ err' = "none"
          /\ pc' = "moved"
          /\ eat_calls' = eat_calls
          /\ health' = health]_vars

\* C9 witness: _make_move has returned from a directional move whose target
\* holds another agent, and the mover is still on the cell it was visited on
C9_Witness ==
  /\ pc = "moved"
  /\ movement # "STAY"
  /\ Origin = Visited
  /\ Kind(matrix, Target) = "AliveEntity"

\* C10: in a tick every agent that was on the grid with health > 0 at its
\* start has get_move requested and _make_move applied exactly once, and an
\* offspring placed during the tick has get_move and give_birth invoked zero
\* times in it.
C10_EveryLiveAgentOnce ==
  /\ \A a \in Agents : get_move_calls[a] <= 1 /\ make_move_calls[a] <= 1
  /\ \A a \in newborn :
       get_move_calls[a] = 0 /\ give_birth_calls[a] = 0 /\ make_move_calls[a] = 0
  /\ ScanDone =>
       \A a \in Agents :
         tick_start[a] = "alive" => get_move_calls[a] = 1 /\ make_move_calls[a] = 1

\* C10 witness: mid-scan, an agent that has made its move and an offspring
\* placed in this tick both stand on cells the scan has yet to reach
C10_Witness ==
  /\ pc = "scan"
  /\ \E a \in moved_entity_cash \ newborn :
       /\ make_move_calls[a] = 1
       /\ OnGrid(matrix, a)
       /\ ScanIndex(matrix, CellOf(matrix, a)) > pos
  /\ \E b \in newborn :
       OnGrid(matrix, b) /\ ScanIndex(matrix, CellOf(matrix, b)) > pos

\* the agent on the next cell the scan will visit
NextEntity == At(matrix, NextAlive(matrix, pos))[2]
Visiting == pc = "scan" /\ NextAlive(matrix, pos) # <<>>
InTick(p) == p \in {"scan", "observe", "move", "moved"}

\* C11 as stated: an agent that has moved to a cell later in scan order is
\* moved again when the scan reaches that cell in the same tick.
C11_RevisitedAgentMovesAgain ==
  [][(Visiting /\ make_move_calls[NextEntity] = 1 /\ health[NextEntity] # 0)
       => (pc' = "observe" /\ entity' = NextEntity)]_vars

\* C11 amended: the scan only moves forward, so an agent moved to an earlier
\* cell is never revisited; an agent moved to a later cell is visited again
\* but not moved again: the visit is skipped (or erases it, if its health is
\* now 0) and neither get_move nor _make_move is invoked for it.
C11_RevisitedAgentSkipped ==
  [][/\ (InTick(pc) /\ InTick(pc')) => pos' >= pos
     /\ Visiting =>
          /\ pos' = ScanIndex(matrix, NextAlive(matrix, pos))
          /\ pos' > pos
          /\ make_move_calls[NextEntity] >= 1 =>
               /\ pc' = "scan"
               /\ get_move_calls' = get_move_calls
               /\ make_move_calls' = make_move_calls
               /\ give_birth_calls' = give_birth_calls
               /\ IF health[NextEntity] = 0
                  THEN ~OnGrid(matrix', NextEntity)
                  ELSE matrix' = matrix]_vars

\* C11 witness: a live agent that has already made its move in this tick
\* stands on the next cell the scan will visit
C11_Witness ==
  /\ Visiting
  /\ make_move_calls[NextEntity] = 1
  /\ health[NextEntity] # 0
  /\ NextEntity \in moved_entity_cash

\* the offsets around the parent in the order the claim lists them
Offsets ==
  << <<-1, -1>>, <<0, -1>>, <<1, -1>>, <<-1, 0>>, <<0, 0>>, <<1, 0>>,
     <<-1, 1>>, <<0, 1>>, <<1, 1>> >>
Neighbour(parent, k) == Coordinates(parent.x + Offsets[k][1], parent.y + Offsets[k][2])
EmptyNeighbours(parent) == {k \in 1..9 : Kind(matrix, Neighbour(parent, k)) = "Empty"}
Least(ks) == CHOOSE k \in ks : \A l \in ks : k <= l
\* the step places agent a on cell c and changes nothing else on the grid
PlacesAt(a, c) ==
  /\ ~OnGrid(matrix, a)
  /\ matrix' = [matrix EXCEPT ![c.y][c.x] = <<"AliveEntity", a>>]

\* C12: an offspring is placed on the first Empty cell among the 9 around its
\* parent, taken in the order (-1,-1), (0,-1), (1,-1), (-1,0), (0,0), (1,0),
\* (-1,1), (0,1), (1,1); random placement is used only when none of the 9 is
\* Empty; the parent's cell is unchanged.
C12_OffspringOnFirstEmptyNeighbour ==
  [][(Visiting /\ born' = born + 1) =>
       LET parent == CellOf(matrix, NextEntity)
           vacant == EmptyNeighbours(parent)
       IN /\ matrix'[parent.y][parent.x] = matrix[parent.y][parent.x]
          /\ IF vacant # {}
             THEN /\ err' = "none"
                  /\ \E a \in Agents : PlacesAt(a, Neighbour(parent, Least(vacant)))
             ELSE \/ err' # "none" /\ matrix' = matrix
                  \/ /\ err' = "none"
                     /\ \E a \in Agents, c \in AllCells(matrix) :
                          Kind(matrix, c) = "Empty" /\ PlacesAt(a, c)]_vars

\* C12 witness: the 9 cells around the parent were all occupied and the
\* offspring has been placed, by the random fallback, away from the parent
C12_Witness ==
  /\ pc = "observe"
  /\ \E b \in newborn :
       /\ OnGrid(matrix, b)
       /\ \/ CellOf(matrix, b).x - Origin.x \notin {-1, 0, 1}
          \/ CellOf(matrix, b).y - Origin.y \notin {-1, 0, 1}
  /\ EmptyNeighbours(Origin) = {}

NoEmptyCell(mat) == \A c \in AllCells(mat) : Kind(mat, c) # "Empty"

\* C13: a placement attempted while the grid has no Empty cell raises
\* SetupEnvironmentError and changes no cell; in particular an offspring
\* produced on a full grid makes step_living_regime raise that error, and no
\* agent or Food unit is removed or overwritten.
C13_NoSpaceRaises ==
  [][/\ (Visiting /\ born' = born + 1 /\ NoEmptyCell(matrix))
          => (pc' = "raised" /\ err' = "SetupEnvironmentError" /\ matrix' = matrix)
     /\ (pc = "setup" /\ NoEmptyCell(matrix))
          => (pc' = "idle" /\ err' = "SetupEnvironmentError" /\ matrix' = matrix)
     /\ pc = "raised" => (pc' = "idle" /\ err' = err /\ matrix' = matrix)]_vars

\* C13 witness: give_birth produced an offspring on a grid filled with the
\* parent and Food, and the tick has raised SetupEnvironmentError
C13_Witness ==
  /\ pc = "raised"
  /\ err = "SetupEnvironmentError"
  /\ born >= 1
  /\ NoEmptyCell(matrix)
  /\ FoodCount(matrix) >= 1
  /\ \A a \in newborn : ~OnGrid(matrix, a)

Changed == {c \in AllCells(matrix) : matrix'[c.y][c.x] # matrix[c.y][c.x]}

\* C14: on every grid with width >= 3 and height >= 3, square or not, that
\* has an Empty cell, every coordinate _set_object_randomly can sample is a
\* valid index of the grid, every Empty cell can be sampled, and the call
\* ends with exactly one previously Empty cell holding the content and no
\* other cell changed.
C14_RandomPlacementSucceeds ==
  [][(pc = "setup" /\ ValidConfiguration /\ ~NoEmptyCell(matrix)) =>
       /\ \A c \in _get_random_coordinates(width, height) : InRange(matrix, c)
       /\ \A c \in AllCells(matrix) :
            Kind(matrix, c) = "Empty" => c \in _get_random_coordinates(width, height)
       /\ err' = "none"
       /\ Cardinality(Changed) = 1
       /\ \A c \in Changed : Kind(matrix, c) = "Empty" /\ Kind(matrix', c) # "Empty"]_vars

\* C15: a move whose target holds Food invokes the mover's eat exactly once,
\* with the food unit that was in the target cell before the mover occupied
\* it; Stay, a move into an Empty cell and a blocked move invoke no eat, and
\* nothing but _make_move invokes eat.
C15_EatOnceWithTargetFood ==
  [][/\ pc = "move" =>
          IF movement # "STAY" /\ Kind(matrix, Target) = "HerbivoreFood"
          THEN /\ eat_calls' = [eat_calls EXCEPT ![entity] = @ + 1]
               /\ eaten_food' = <<matrix[Target.y][Target.x]>>
               /\ eaten_food'[1][2] = food_nutrition
          ELSE eat_calls' = eat_calls /\ eaten_food' = <<>>
     /\ pc # "move" => \A a \in Agents : eat_calls'[a] <= eat_calls[a]]_vars

\* C15 witness: _make_move has returned from a move into a Food cell, eat
\* was invoked once with that Food and the mover stands on the target
C15_Witness ==
  /\ pc = "moved"
  /\ movement # "STAY"
  /\ eat_calls[entity] = 1
  /\ eaten_food = << <<"HerbivoreFood", food_nutrition>> >>
  /\ Origin = Coordinates(Visited.x + DX(movement), Visited.y + DY(movement))

\* C16: _make_move raises ObjectNotExistsInEnvironment exactly when the
\* acting agent is not on the grid, whatever the movement (Stay included),
\* and then leaves the grid unchanged; it never raises it for an agent that
\* is on the grid.
C16_MissingEntityError ==
  [][/\ (pc = "idle" /\ pc' = "called") =>
          IF OnGrid(matrix, entity')
          THEN err' # "ObjectNotExistsInEnvironment"
          ELSE /\ err' = "ObjectNotExistsInEnvironment"
               /\ matrix' = matrix
               /\ health' = health
               /\ eaten_food' = <<>>
     /\ pc = "move" =>
          (OnGrid(matrix, entity) /\ err' # "ObjectNotExistsInEnvironment")]_vars

\* C16 witness: _make_move was called with STAY for an agent that is not on
\* the grid, while another agent is, and has raised the error
C16_Witness ==
  /\ pc = "called"
  /\ movement = "STAY"
  /\ err = "ObjectNotExistsInEnvironment"
  /\ ~OnGrid(matrix, entity)
  /\ \E a \in Agents : OnGrid(matrix, a)

\* the agents shown in a window
Shown(obs) ==
  {a \in Agents : \E r \in DOMAIN obs : \E k \in DOMAIN obs[r] : obs[r][k] = <<"AliveEntity", a>>}

\* C17: the observation handed to an agent's get_move is the full 3-by-3
\* window of the grid as it is at decision time, centred on the agent's own
\* cell (its centre element is the agent); it is built after the agent's
\* offspring was placed, so a newborn placed next to it is shown, and it
\* shows the agents processed earlier in the scan where they are now.
C17_ObservationIsWindow ==
  pc = "move" =>
    LET c == CellOf(matrix, entity)
    IN /\ OnGrid(matrix, entity)
       /\ DOMAIN observation = 1..3
       /\ \A r \in 1..3 :
            /\ DOMAIN observation[r] = 1..3
            /\ \A k \in 1..3 : observation[r][k] = matrix[c.y - 2 + r][c.x - 2 + k]
       /\ observation[2][2] = <<"AliveEntity", entity>>
       /\ \A a \in Agents \ {entity} :
            (/\ OnGrid(matrix, a)
             /\ CellOf(matrix, a).x - c.x \in {-1, 0, 1}
             /\ CellOf(matrix, a).y - c.y \in {-1, 0, 1}) => a \in Shown(observation)

\* C17 witness: the agent deciding has just given birth and its newborn is in
\* the window it was shown
C17_Witness ==
  /\ pc = "move"
  /\ give_birth_calls[entity] = 1
  /\ newborn # {}
  /\ newborn \subseteq Shown(observation)

\* C18: an Environment whose width or height is below 3 is never
\* constructed: creating its grid fails with ConfigurationError.
C18_SmallGridRejected ==
  (width < 3 \/ height < 3) => err = "ConfigurationError"

\* the cells holding an agent, and the agents they hold
AgentCells(mat) == {c \in AllCells(mat) : mat[c.y][c.x][1] = "AliveEntity"}
AgentsIn(mat, cells) == {mat[c.y][c.x][2] : c \in cells}

\* C19: every agent occupies at most one cell in every state reached through
\* setup and ticks; within a tick the set of agents on the grid changes only
\* by removal of the agent being visited when its health is 0 and by
\* insertion of the offspring born in that visit; a _make_move call
\* (successful, blocked, Stay, or ending in an error of the replenishment)
\* leaves the set of agents on the grid unchanged.
C19_AgentSetConserved ==
  [][LET cells == AgentCells(matrix)
         cells_ == AgentCells(matrix')
         before == AgentsIn(matrix, cells)
         after == AgentsIn(matrix', cells_)
     IN /\ Cardinality(cells) = Cardinality(before)
        /\ Cardinality(cells_) = Cardinality(after)
        /\ (pc \notin {"idle", "setup"} /\ after # before) =>
             /\ Visiting
             /\ LET e == NextEntity
                IN /\ \A a \in before \ after : a = e /\ health[a] = 0
                   /\ \A a \in after \ before :
                        /\ a \in newborn' \ newborn
                        /\ give_birth_calls'[e] = give_birth_calls[e] + 1
        /\ pc = "move" => after = before]_vars

\* C19 witness: an agent has just been moved to another cell while a second
\* agent is on the grid, and both are on the grid exactly once
C19_Witness ==
  /\ pc = "moved"
  /\ err = "none"
  /\ OnGrid(matrix, entity)
  /\ CellOf(matrix, entity) # Visited
  /\ Cardinality(AgentCells(matrix)) = 2
  /\ AgentsIn(matrix, AgentCells(matrix)) = Agents

\* C20: a _make_move call never raises SetupEnvironmentError: when the mover
\* enters a Food cell with replenishment enabled its origin has been cleared
\* before _set_object_randomly runs, so the grid has an Empty cell at that
\* call even if it had none before the move.
C20_ReplenishNeverLacksSpace ==
  [][pc = "move" =>
       /\ err' # "SetupEnvironmentError"
       /\ (movement # "STAY" /\ ReplenishApplies) =>
            has_space_left(Put(Put(matrix, Target, <<"AliveEntity", entity>>), Origin, Empty))]_vars

\* C20 witness: the mover has eaten with replenishment enabled on a grid that
\* had no Empty cell before the move (it has none now: the new Food took the
\* only vacated cell, the origin)
C20_Witness ==
  /\ pc = "moved"
  /\ replenish_food
  /\ eat_calls[entity] = 1
  /\ err = "none"
  /\ NoEmptyCell(matrix)
  /\ Kind(matrix, Visited) = "HerbivoreFood"

====
